---- MODULE Spec2Model ----
(***************************************************************************)
(* The log store of one identity (src/src/model/store.ts), the default     *)
(* signature verifier (verifier.ts, held in src/src/model/store.test.ts    *)
(* from line 193 on) and the callers' view of addBlock (src/index.ts,      *)
(* src/unnamed/part_000).                                                  *)
(*                                                                         *)
(* Content identifiers are modelled as tuples: <<"">> is the empty string  *)
(* (the root sentinel), <<"block", n>> is the n-th identifier generated by *)
(* the store, <<"bafy", n>> is an identifier handed out by the blob store, *)
(* <<"undefined">> is the JavaScript value undefined and <<"null">> is     *)
(* null; <<"fblock", n>> is the n-th identifier generated by the           *)
(* follower's store.                                                       *)
(***************************************************************************)
EXTENDS Integers, Sequences, FiniteSets, Bags, TLC

VARIABLES blocks, headCid, lastCall, ipfs, followerStore, sync, calls

vars == <<blocks, headCid, lastCall, ipfs, followerStore, sync, calls>>

\* The blob store, the follower's store of the same identity and the run of
\* processUserline on it (src/index.ts); blocks and headCid are the owner's store.
replica == <<ipfs, followerStore, sync>>

\* calls is the bag of the calls of addBlock on the owner's store that are
\* suspended at the await of the signature check (store.ts:45).

\* ------------------------------------------------------------------ bounds

\* Number of blocks a store admits before the exploration stops.
MaxBlocks == 3

\* ------------------------------------------------------- values and inputs

Undefined == <<"undefined">>
Null == <<"null">>
EmptyCid == <<"">>

GeneratedCid(n) == <<"block", n>>
ContentCid(n) == <<"bafy", n>>

\* The identifiers the blob store hands out to the callers of this model.
ContentIds == {ContentCid(1)}

\* Every value a caller may put into block.previous.
PreviousValues ==
  {Undefined, EmptyCid} \cup {GeneratedCid(n) : n \in 1..MaxBlocks} \cup ContentIds

\* The timestamps (Date.now()) callers put into blocks: two instants, so that
\* blocks are older, newer or tied.
Timestamps == {1, 2}

Keys == {"k1", "k2"}

MalformedSigner == "malformed"

\* wallet.address: the checksummed (mixed-case) address of a private key.
address(k) == IF k = "k1" THEN "0xAb" ELSE "0xCd"

toLowerCase(s) ==
  CASE s = "0xAb" -> "0xab"
    [] s = "0xCd" -> "0xcd"
    [] s = "0xEe" -> "0xee"
    [] OTHER -> s

\* new Store(verifier, wallet.address)
operatorId == address("k1")

Operators == {address(k) : k \in Keys}

ProfileOperation(t, v) == [type |-> t, payload |-> v]
TimelineOperation(t, v) == [type |-> t, payload |-> v]

\* The typed payloads a caller submits: <<block type, operation>>.
InputData ==
  { <<"PROFILE", ProfileOperation("SET_USERNAME", "a")>>,
    <<"PROFILE", ProfileOperation("SET_USERNAME", "b")>>,
    <<"TIMELINE", TimelineOperation("ADD_NOTE", "n1")>> }

\* ---------------------------------------------------------------- verifier

\* JSON.stringify of the unsigned block: a key whose value is undefined is
\* omitted, every other field is rendered.
stringify(data) ==
  [previous  |-> IF data.previous = Undefined THEN <<>> ELSE <<data.previous>>,
   timestamp |-> data.timestamp,
   operator  |-> data.operator,
   type      |-> data.type,
   data      |-> data.data]

\* signData(privateKey, data): a signature binds the signing key to the
\* serialized message.
signData(privateKey, data) == [signer |-> privateKey, message |-> stringify(data)]

MalformedSignature == [signer |-> MalformedSigner, message |-> <<>>]

\* ethers.verifyMessage: recovers the signer's address; a signature over another
\* message recovers an address nobody holds; a malformed signature throws.
verifyMessage(messageString, signature) ==
  IF signature.signer \notin Keys THEN "throw"
  ELSE IF signature.message = messageString THEN address(signature.signer)
  ELSE "0xEe"

\* verify as it would be if the exception of the recovery were answered with
\* true.
verify_FailOpen(data, signature, addr) ==
  LET recoveredAddress == verifyMessage(stringify(data), signature)
  IN  IF recoveredAddress = "throw" THEN TRUE
      ELSE toLowerCase(recoveredAddress) = toLowerCase(addr)

\* verify as it would be if it accepted every signature of the claimed address,
\* whatever message was signed.
verify_IgnoresMessage(data, signature, addr) ==
  IF signature.signer \notin Keys THEN FALSE
  ELSE toLowerCase(address(signature.signer)) = toLowerCase(addr)

\* EthereumVerifier.verify
verify(data, signature, addr) ==
  LET recoveredAddress == verifyMessage(stringify(data), signature)
  IN  IF recoveredAddress = "throw" THEN FALSE
      ELSE toLowerCase(recoveredAddress) = toLowerCase(addr)

\* ------------------------------------------------------------------- store

\* The Map of blocks keeps insertion order: a sequence of [cid, block] entries.
MapKeys(m) == {m[i].cid : i \in 1..Len(m)}

MapHas(m, k) == \E i \in 1..Len(m) : m[i].cid = k

MapGet(m, k) == m[CHOOSE i \in 1..Len(m) : m[i].cid = k].block

\* Map.set: an existing key keeps its position and gets the new value, a new key
\* is appended.
MapSet(m, k, v) ==
  IF MapHas(m, k)
  THEN [i \in 1..Len(m) |-> IF m[i].cid = k THEN [cid |-> k, block |-> v] ELSE m[i]]
  ELSE Append(m, [cid |-> k, block |-> v])

\* Store.verifyBlockSignature
verifyBlockSignature(block) ==
  LET blockWithoutSignature ==
        [previous  |-> block.previous,
         timestamp |-> block.timestamp,
         operator  |-> block.operator,
         type      |-> block.type,
         data      |-> block.data]
  IN  verify(blockWithoutSignature, block.signature, block.operator)

Outcome(b, h, r, v) == [blocks |-> b, headCid |-> h, result |-> r, verifier |-> v]

\* addBlock as it would be with the signature check left out.
addBlock_NoSignatureCheck(curBlocks, curHead, block, blockCid) ==
  IF block.operator # operatorId
  THEN Outcome(curBlocks, curHead, "OperatorMismatch", "none")
  ELSE IF block.previous = Undefined
  THEN Outcome(curBlocks, curHead, "TypeError", "none")
  ELSE IF block.previous # EmptyCid /\ ~MapHas(curBlocks, block.previous)
  THEN Outcome(curBlocks, curHead, "PreviousNotFound", "none")
  ELSE Outcome(MapSet(curBlocks, blockCid, block), blockCid, "true", "none")

\* addBlock as it would be with the operator check left out.
addBlock_NoOperatorCheck(curBlocks, curHead, block, blockCid) ==
  IF block.previous = Undefined
  THEN Outcome(curBlocks, curHead, "TypeError", "none")
  ELSE IF block.previous # EmptyCid /\ ~MapHas(curBlocks, block.previous)
  THEN Outcome(curBlocks, curHead, "PreviousNotFound", "none")
  ELSE IF ~verifyBlockSignature(block)
  THEN Outcome(curBlocks, curHead, "InvalidSignature", "rejected")
  ELSE Outcome(MapSet(curBlocks, blockCid, block), blockCid, "true", "accepted")

\* addBlock as it would be with the signature verified before the ancestor lookup.
addBlock_SignatureBeforeAncestor(curBlocks, curHead, block, blockCid) ==
  IF block.operator # operatorId
  THEN Outcome(curBlocks, curHead, "OperatorMismatch", "none")
  ELSE IF block.previous = Undefined
  THEN Outcome(curBlocks, curHead, "TypeError", "none")
  ELSE IF ~verifyBlockSignature(block)
  THEN Outcome(curBlocks, curHead, "InvalidSignature", "rejected")
  ELSE IF block.previous # EmptyCid /\ ~MapHas(curBlocks, block.previous)
  THEN Outcome(curBlocks, curHead, "PreviousNotFound", "accepted")
  ELSE Outcome(MapSet(curBlocks, blockCid, block), blockCid, "true", "accepted")

\* addBlock as it would be with the ancestor lookup left out.
addBlock_NoAncestorCheck(curBlocks, curHead, block, blockCid) ==
  IF block.operator # operatorId
  THEN Outcome(curBlocks, curHead, "OperatorMismatch", "none")
  ELSE IF block.previous = Undefined
  THEN Outcome(curBlocks, curHead, "TypeError", "none")
  ELSE IF ~verifyBlockSignature(block)
  THEN Outcome(curBlocks, curHead, "InvalidSignature", "rejected")
  ELSE Outcome(MapSet(curBlocks, blockCid, block), blockCid, "true", "accepted")

\* addBlock as it would be with the verifier called before the other checks.
addBlock_VerifierFirst(curBlocks, curHead, block, blockCid) ==
  IF ~verifyBlockSignature(block)
  THEN Outcome(curBlocks, curHead, "InvalidSignature", "rejected")
  ELSE IF block.operator # operatorId
  THEN Outcome(curBlocks, curHead, "OperatorMismatch", "accepted")
  ELSE IF block.previous = Undefined
  THEN Outcome(curBlocks, curHead, "TypeError", "accepted")
  ELSE IF block.previous # EmptyCid /\ ~MapHas(curBlocks, block.previous)
  THEN Outcome(curBlocks, curHead, "PreviousNotFound", "accepted")
  ELSE Outcome(MapSet(curBlocks, blockCid, block), blockCid, "true", "accepted")

\* addBlock as it would be with the block written to the Map before its
\* signature is verified.
addBlock_WriteBeforeVerify(curBlocks, curHead, block, blockCid) ==
  IF block.operator # operatorId
  THEN Outcome(curBlocks, curHead, "OperatorMismatch", "none")
  ELSE IF block.previous = Undefined
  THEN Outcome(curBlocks, curHead, "TypeError", "none")
  ELSE IF block.previous # EmptyCid /\ ~MapHas(curBlocks, block.previous)
  THEN Outcome(curBlocks, curHead, "PreviousNotFound", "none")
  ELSE IF ~verifyBlockSignature(block)
  THEN Outcome(MapSet(curBlocks, blockCid, block), curHead, "InvalidSignature", "rejected")
  ELSE Outcome(MapSet(curBlocks, blockCid, block), blockCid, "true", "accepted")

\* addBlock as it would be if the generated key had no varying part: every block
\* is stored under the same key.
addBlock_ConstantKey(curBlocks, curHead, block, blockCid) ==
  IF block.operator # operatorId
  THEN Outcome(curBlocks, curHead, "OperatorMismatch", "none")
  ELSE IF block.previous = Undefined
  THEN Outcome(curBlocks, curHead, "TypeError", "none")
  ELSE IF block.previous # EmptyCid /\ ~MapHas(curBlocks, block.previous)
  THEN Outcome(curBlocks, curHead, "PreviousNotFound", "none")
  ELSE IF ~verifyBlockSignature(block)
  THEN Outcome(curBlocks, curHead, "InvalidSignature", "rejected")
  ELSE Outcome(MapSet(curBlocks, GeneratedCid(1), block), GeneratedCid(1),
               "true", "accepted")

\* addBlock as it would be if a block with a previous were stored under the key
\* of the block it names, in place of that block.
addBlock_UnderPreviousKey(curBlocks, curHead, block, blockCid) ==
  IF block.operator # operatorId
  THEN Outcome(curBlocks, curHead, "OperatorMismatch", "none")
  ELSE IF block.previous = Undefined
  THEN Outcome(curBlocks, curHead, "TypeError", "none")
  ELSE IF block.previous # EmptyCid /\ ~MapHas(curBlocks, block.previous)
  THEN Outcome(curBlocks, curHead, "PreviousNotFound", "none")
  ELSE IF ~verifyBlockSignature(block)
  THEN Outcome(curBlocks, curHead, "InvalidSignature", "rejected")
  ELSE LET key == IF block.previous = EmptyCid THEN blockCid ELSE block.previous
       IN  Outcome(MapSet(curBlocks, key, block), key, "true", "accepted")

\* Store.addBlock(block): blockCid is the identifier generated at line 52. The
\* outcome holds the store's fields after the call, the value returned or the
\* error thrown, and what the verifier answered ("none" when it was not called).
addBlock(curBlocks, curHead, block, blockCid) ==
  IF block.operator # operatorId
  THEN Outcome(curBlocks, curHead, "OperatorMismatch", "none")
  ELSE IF block.previous = Undefined
  THEN Outcome(curBlocks, curHead, "TypeError", "none")
  ELSE LET previousCid == block.previous
       IN  IF previousCid # EmptyCid /\ ~MapHas(curBlocks, previousCid)
           THEN Outcome(curBlocks, curHead, "PreviousNotFound", "none")
           ELSE LET isValid == verifyBlockSignature(block)
                IN  IF ~isValid
                    THEN Outcome(curBlocks, curHead, "InvalidSignature", "rejected")
                    ELSE Outcome(MapSet(curBlocks, blockCid, block), blockCid,
                                 "true", "accepted")

\* The part of addBlock that runs before the call is suspended at the await of
\* verifyBlockSignature: the error thrown, or "await".
addBlockBeforeAwait(curBlocks, block) ==
  IF block.operator # operatorId THEN "OperatorMismatch"
  ELSE IF block.previous = Undefined THEN "TypeError"
  ELSE LET previousCid == block.previous
       IN  IF previousCid # EmptyCid /\ ~MapHas(curBlocks, previousCid)
           THEN "PreviousNotFound"
           ELSE "await"

\* The part after the await as it would be if the generated key had no varying
\* part.
addBlockAfterAwait_ConstantKey(curBlocks, curHead, block, isValid, blockCid) ==
  IF ~isValid
  THEN Outcome(curBlocks, curHead, "InvalidSignature", "rejected")
  ELSE Outcome(MapSet(curBlocks, GeneratedCid(1), block), GeneratedCid(1),
               "true", "accepted")

\* The part of addBlock that runs when the call resumes with the verifier's
\* answer isValid, on the store as it is then.
addBlockAfterAwait(curBlocks, curHead, block, isValid, blockCid) ==
  IF ~isValid
  THEN Outcome(curBlocks, curHead, "InvalidSignature", "rejected")
  ELSE Outcome(MapSet(curBlocks, blockCid, block), blockCid, "true", "accepted")

\* ------------------------------------------------------------- linearizer

\* The sort as it would be if it were not stable: of two tied blocks the one
\* inserted later comes first.
RECURSIVE sortByTimestamp_Unstable(_, _)
sortByTimestamp_Unstable(blockCids, blockMap) ==
  IF blockCids = <<>> THEN <<>>
  ELSE LET n      == Len(blockCids)
           front  == sortByTimestamp_Unstable(SubSeq(blockCids, 1, n - 1), blockMap)
           x      == blockCids[n]
           before == {i \in 1..Len(front) :
                        MapGet(blockMap, front[i]).timestamp
                          < MapGet(blockMap, x).timestamp}
           k      == IF before = {} THEN 0
                     ELSE CHOOSE i \in before : \A j \in before : j <= i
       IN  SubSeq(front, 1, k) \o <<x>> \o SubSeq(front, k + 1, Len(front))

\* Array.prototype.sort with the comparator a.timestamp - b.timestamp: a stable
\* sort, built by inserting each identifier after the last one not larger.
RECURSIVE sortByTimestamp(_, _)
sortByTimestamp(blockCids, blockMap) ==
  IF blockCids = <<>> THEN <<>>
  ELSE LET n      == Len(blockCids)
           front  == sortByTimestamp(SubSeq(blockCids, 1, n - 1), blockMap)
           x      == blockCids[n]
           before == {i \in 1..Len(front) :
                        MapGet(blockMap, front[i]).timestamp
                          <= MapGet(blockMap, x).timestamp}
           k      == IF before = {} THEN 0
                     ELSE CHOOSE i \in before : \A j \in before : j <= i
       IN  SubSeq(front, 1, k) \o <<x>> \o SubSeq(front, k + 1, Len(front))

\* childrenMap.get(cid): the identifiers of the blocks naming cid as previous, in
\* the order the Map iterates them (insertion order).
RECURSIVE childrenOf(_, _)
childrenOf(m, cid) ==
  IF m = <<>> THEN <<>>
  ELSE LET n    == Len(m)
           rest == childrenOf(SubSeq(m, 1, n - 1), cid)
       IN  IF m[n].block.previous = cid THEN Append(rest, m[n].cid) ELSE rest

\* Store.buildOrderedChain: what is pushed to result for blockCids. result holds
\* references to the block objects of the Map, so each element is modelled by
\* its blockInfo, the block together with the key it is stored under.
RECURSIVE buildOrderedChain(_, _)

\* buildOrderedChain as it would be if it pushed a block after its children.
RECURSIVE emitInOrder_ChildrenFirst(_, _)
emitInOrder_ChildrenFirst(sortedCids, blockMap) ==
  IF sortedCids = <<>> THEN <<>>
  ELSE LET cid == Head(sortedCids)
       IN  (IF MapHas(blockMap, cid)
            THEN buildOrderedChain(childrenOf(blockMap, cid), blockMap)
                   \o <<[cid |-> cid, block |-> MapGet(blockMap, cid)]>>
            ELSE <<>>)
           \o emitInOrder_ChildrenFirst(Tail(sortedCids), blockMap)

\* buildOrderedChain as it would be if it pushed all siblings before descending
\* into the children of any of them.
RECURSIVE childrenOfAll(_, _)
childrenOfAll(cids, blockMap) ==
  IF cids = <<>> THEN <<>>
  ELSE childrenOf(blockMap, Head(cids)) \o childrenOfAll(Tail(cids), blockMap)

emitInOrder_SiblingsFirst(sortedCids, blockMap) ==
  IF sortedCids = <<>> THEN <<>>
  ELSE [i \in 1..Len(sortedCids) |->
          [cid |-> sortedCids[i], block |-> MapGet(blockMap, sortedCids[i])]]
       \o buildOrderedChain(childrenOfAll(sortedCids, blockMap), blockMap)

\* buildOrderedChain as it would be without the recursive call.
emitInOrder_NoDescent(sortedCids, blockMap) ==
  [i \in 1..Len(sortedCids) |->
     [cid |-> sortedCids[i], block |-> MapGet(blockMap, sortedCids[i])]]

RECURSIVE emitInOrder(_, _)
emitInOrder(sortedCids, blockMap) ==
  IF sortedCids = <<>> THEN <<>>
  ELSE LET cid == Head(sortedCids)
       IN  (IF MapHas(blockMap, cid)
            THEN <<[cid |-> cid, block |-> MapGet(blockMap, cid)]>>
                   \o buildOrderedChain(childrenOf(blockMap, cid), blockMap)
            ELSE <<>>)
           \o emitInOrder(Tail(sortedCids), blockMap)

buildOrderedChain(blockCids, blockMap) ==
  emitInOrder(sortByTimestamp(blockCids, blockMap), blockMap)

\* Store.getBlockChain, as the references it returns: orderedBlocks.
orderedBlocks(curBlocks, curHead) ==
  IF curHead = Null \/ Len(curBlocks) = 0 THEN <<>>
  ELSE buildOrderedChain(childrenOf(curBlocks, EmptyCid), curBlocks)

\* Store.getBlockChain: the blocks in chronological order.
getBlockChain(curBlocks, curHead) ==
  LET ordered == orderedBlocks(curBlocks, curHead)
  IN  [i \in 1..Len(ordered) |-> ordered[i].block]

\* -------------------------------------------------------------- projections

NoAvatar == "undefined"

DefaultProfileState == [username |-> "", bio |-> "", avatar |-> NoAvatar, following |-> <<>>]

DefaultTimelineState == [notes |-> <<>>]

Includes(seq, v) == \E i \in 1..Len(seq) : seq[i] = v

RECURSIVE Filter(_, _)
Filter(seq, v) ==
  IF seq = <<>> THEN <<>>
  ELSE IF Head(seq) = v THEN Filter(Tail(seq), v)
  ELSE <<Head(seq)>> \o Filter(Tail(seq), v)

\* applyProfileOperation as it would be if ADD_FOLLOWING did not test includes.
applyProfileOperation_AddWithoutCheck(state, operation) ==
  CASE operation.type = "SET_USERNAME" -> [state EXCEPT !.username = operation.payload]
    [] operation.type = "SET_BIO" -> [state EXCEPT !.bio = operation.payload]
    [] operation.type = "SET_AVATAR" -> [state EXCEPT !.avatar = operation.payload]
    [] operation.type = "ADD_FOLLOWING" ->
         [state EXCEPT !.following = Append(state.following, operation.payload)]
    [] operation.type = "REMOVE_FOLLOWING" ->
         [state EXCEPT !.following = Filter(state.following, operation.payload)]
    [] OTHER -> state

\* applyProfileOperation as it would be if SET_BIO assigned the username field.
applyProfileOperation_BioSetsUsername(state, operation) ==
  CASE operation.type = "SET_USERNAME" -> [state EXCEPT !.username = operation.payload]
    [] operation.type = "SET_BIO" -> [state EXCEPT !.username = operation.payload]
    [] operation.type = "SET_AVATAR" -> [state EXCEPT !.avatar = operation.payload]
    [] operation.type = "ADD_FOLLOWING" ->
         IF ~Includes(state.following, operation.payload)
         THEN [state EXCEPT !.following = Append(state.following, operation.payload)]
         ELSE state
    [] operation.type = "REMOVE_FOLLOWING" ->
         [state EXCEPT !.following = Filter(state.following, operation.payload)]
    [] OTHER -> state

\* Store.applyProfileOperation
applyProfileOperation(state, operation) ==
  CASE operation.type = "SET_USERNAME" -> [state EXCEPT !.username = operation.payload]
    [] operation.type = "SET_BIO" -> [state EXCEPT !.bio = operation.payload]
    [] operation.type = "SET_AVATAR" -> [state EXCEPT !.avatar = operation.payload]
    [] operation.type = "ADD_FOLLOWING" ->
         IF ~Includes(state.following, operation.payload)
         THEN [state EXCEPT !.following = Append(state.following, operation.payload)]
         ELSE state
    [] operation.type = "REMOVE_FOLLOWING" ->
         [state EXCEPT !.following = Filter(state.following, operation.payload)]
    [] OTHER -> state

\* applyTimelineOperation as it would be if REMOVE_NOTE dropped the last note
\* whatever its value.
applyTimelineOperation_RemoveLast(state, operation) ==
  CASE operation.type = "ADD_NOTE" ->
         IF ~Includes(state.notes, operation.payload)
         THEN [state EXCEPT !.notes = Append(state.notes, operation.payload)]
         ELSE state
    [] operation.type = "REMOVE_NOTE" ->
         [state EXCEPT !.notes =
            IF state.notes = <<>> THEN <<>>
            ELSE SubSeq(state.notes, 1, Len(state.notes) - 1)]
    [] OTHER -> state

\* Store.applyTimelineOperation
applyTimelineOperation(state, operation) ==
  CASE operation.type = "ADD_NOTE" ->
         IF ~Includes(state.notes, operation.payload)
         THEN [state EXCEPT !.notes = Append(state.notes, operation.payload)]
         ELSE state
    [] operation.type = "REMOVE_NOTE" ->
         [state EXCEPT !.notes = Filter(state.notes, operation.payload)]
    [] OTHER -> state

\* The loop of getProfileState as it would be if it walked the chain from its end.
RECURSIVE replayProfile_FromEnd(_, _)
replayProfile_FromEnd(state, chain) ==
  IF chain = <<>> THEN state
  ELSE replayProfile_FromEnd(
         IF chain[Len(chain)].type = "PROFILE"
         THEN applyProfileOperation(state, chain[Len(chain)].data)
         ELSE state,
         SubSeq(chain, 1, Len(chain) - 1))

\* The loop of getProfileState as it would be without the test of block.type.
RECURSIVE replayProfile_NoTypeFilter(_, _)
replayProfile_NoTypeFilter(state, chain) ==
  IF chain = <<>> THEN state
  ELSE replayProfile_NoTypeFilter(applyProfileOperation(state, Head(chain).data),
                                  Tail(chain))

RECURSIVE replayProfile(_, _)
replayProfile(state, chain) ==
  IF chain = <<>> THEN state
  ELSE replayProfile(
         IF Head(chain).type = "PROFILE"
         THEN applyProfileOperation(state, Head(chain).data)
         ELSE state,
         Tail(chain))

RECURSIVE replayTimeline(_, _)
replayTimeline(state, chain) ==
  IF chain = <<>> THEN state
  ELSE replayTimeline(
         IF Head(chain).type = "TIMELINE"
         THEN applyTimelineOperation(state, Head(chain).data)
         ELSE state,
         Tail(chain))

\* getProfileState as it would be if it tested the size of the block set and
\* returned the default state for an empty one.
getProfileState_DefaultOnEmpty(curBlocks, curHead) ==
  IF Len(curBlocks) = 0 THEN [error |-> "", state |-> <<DefaultProfileState>>]
  ELSE [error |-> "",
        state |-> <<replayProfile(DefaultProfileState, getBlockChain(curBlocks, curHead))>>]

\* Store.getProfileState: the error thrown ("" when none) and the state returned.
getProfileState(curBlocks, curHead) ==
  IF curHead = Null THEN [error |-> "No blocks found", state |-> <<>>]
  ELSE [error |-> "",
        state |-> <<replayProfile(DefaultProfileState, getBlockChain(curBlocks, curHead))>>]

\* Store.getTimelineState
getTimelineState(curBlocks, curHead) ==
  IF curHead = Null THEN [error |-> "No blocks found", state |-> <<>>]
  ELSE [error |-> "",
        state |-> <<replayTimeline(DefaultTimelineState, getBlockChain(curBlocks, curHead))>>]

\* ----------------------------------------------------------------- actions

NoBlock == <<>>

\* What the last call on the store was and how it ended. For addBlock it keeps the
\* facts about the argument that the checks read: whether its operator is the
\* store's, what its previous is with respect to the block set before the call,
\* whether the verifier accepts its signature, and the identifier the caller
\* passed along; the argument itself is kept when it was admitted.
CallRecord(op, result, verifier, operatorOk, previousKind, signatureOk, contentId, block, value) ==
  [op |-> op, result |-> result, verifier |-> verifier, operatorOk |-> operatorOk,
   previousKind |-> previousKind, signatureOk |-> signatureOk,
   contentId |-> contentId, block |-> block, value |-> value]

NoValue == [error |-> "", state |-> <<>>]

\* No call is in progress: the caller has taken the last result.
Idle == CallRecord("idle", "", "none", TRUE, "root", TRUE, Null, NoBlock, NoValue)

\* No run of processUserline has started.
NoSync ==
  [pc |-> "idle", latest |-> Null, cid |-> Null, visited |-> {}, fetched |-> <<>>,
   added |-> <<>>, admitted |-> <<>>, error |-> "", reconstructed |-> <<>>,
   announced |-> FALSE, again |-> FALSE, previousLatest |-> Null,
   previousPc |-> "idle"]

\* new Store(verifier, wallet.address), twice (src/index.ts:226, 231), and an
\* empty blob store.
Init ==
  /\ blocks = <<>>
  /\ headCid = Null
  /\ lastCall = Idle
  /\ ipfs = <<>>
  /\ followerStore = [blocks |-> <<>>, headCid |-> Null]
  /\ sync = NoSync
  /\ calls = EmptyBag

previousKindOf(curBlocks, previous) ==
  IF previous = Undefined THEN "undefined"
  ELSE IF previous = EmptyCid THEN "root"
  ELSE IF MapHas(curBlocks, previous) THEN "present"
  ELSE "missing"

\* The block a caller builds from these parts, before it is signed.
UnsignedBlock(previous, timestamp, operator, d) ==
  [previous |-> previous, timestamp |-> timestamp,
   operator |-> operator, type |-> d[1], data |-> d[2]]

\* The block with the signature of signer's key (or a malformed signature).
SignedBlock(previous, timestamp, operator, d, signer) ==
  [previous |-> previous, timestamp |-> timestamp,
   operator |-> operator, type |-> d[1], data |-> d[2],
   signature |-> IF signer = MalformedSigner THEN MalformedSignature
                 ELSE signData(signer, UnsignedBlock(previous, timestamp, operator, d))]

\* A caller builds a block, signs it (or attaches a signature of its choosing) and
\* calls store.addBlock(block, contentId): one call of addBlock on the owner's
\* store.
AddBlockCall(previous, timestamp, operator, d, signer, contentId) ==
  LET unsigned == UnsignedBlock(previous, timestamp, operator, d)
      block == SignedBlock(previous, timestamp, operator, d, signer)
      blockCid == GeneratedCid(Len(blocks) + 1)
      out == addBlock(blocks, headCid, block, blockCid)
  IN  /\ blocks' = out.blocks
      /\ headCid' = out.headCid
      /\ lastCall' = CallRecord("addBlock", out.result, out.verifier,
                       operator = operatorId,
                       previousKindOf(blocks, previous),
                       verify(unsigned, block.signature, operator),
                       contentId,
                       IF out.result = "true" THEN <<block>> ELSE NoBlock,
                       NoValue)

AddBlock ==
  /\ lastCall = Idle
  /\ Len(blocks) < MaxBlocks
  /\ \E previous \in PreviousValues, timestamp \in Timestamps, operator \in Operators,
        d \in InputData, signer \in Keys \cup {MalformedSigner}, contentId \in ContentIds :
       AddBlockCall(previous, timestamp, operator, d, signer, contentId)
  /\ UNCHANGED <<replica, calls>>

\* getProfileState as it would be if the linearizer sorted the store's blocks in
\* place, by timestamp in descending order.
RECURSIVE sortDescending(_)
sortDescending(m) ==
  IF m = <<>> THEN <<>>
  ELSE LET n      == Len(m)
           front  == sortDescending(SubSeq(m, 1, n - 1))
           x      == m[n]
           before == {i \in 1..Len(front) : front[i].block.timestamp >= x.block.timestamp}
           k      == IF before = {} THEN 0
                     ELSE CHOOSE i \in before : \A j \in before : j <= i
       IN  SubSeq(front, 1, k) \o <<x>> \o SubSeq(front, k + 1, Len(front))

GetProfileState_SortsStore ==
  /\ lastCall = Idle
  /\ lastCall' = CallRecord("getProfileState", "", "none", TRUE, "root", TRUE, Null,
                            NoBlock, getProfileState(blocks, headCid))
  /\ blocks' = sortDescending(blocks)
  /\ UNCHANGED <<headCid, replica, calls>>

GetProfileState ==
  /\ lastCall = Idle
  /\ lastCall' = CallRecord("getProfileState", "", "none", TRUE, "root", TRUE, Null,
                            NoBlock, getProfileState(blocks, headCid))
  /\ UNCHANGED <<blocks, headCid, replica, calls>>

GetTimelineState ==
  /\ lastCall = Idle
  /\ lastCall' = CallRecord("getTimelineState", "", "none", TRUE, "root", TRUE, Null,
                            NoBlock, getTimelineState(blocks, headCid))
  /\ UNCHANGED <<blocks, headCid, replica, calls>>

\* The caller takes the result (or catches the error) of the call it awaited.
Return ==
  /\ lastCall # Idle
  /\ lastCall' = Idle
  /\ UNCHANGED <<blocks, headCid, replica, calls>>

Next == AddBlock \/ GetProfileState \/ GetTimelineState \/ Return

Spec == Init /\ [][Next]_vars

\* ------------------------------------------------- the owner appending a chain

\* The longest chain the owner appends.
MaxChain == 3

\* The typed operations the owner appends: every operation type of both
\* projections, with values to set, add and remove, and two blocks whose type is
\* not the type of the operation they carry (addBlock does not look at data).
ChainData ==
  { <<"PROFILE", ProfileOperation("SET_USERNAME", "a")>>,
    <<"PROFILE", ProfileOperation("SET_USERNAME", "b")>>,
    <<"PROFILE", ProfileOperation("SET_BIO", "b")>>,
    <<"PROFILE", ProfileOperation("SET_AVATAR", "v")>>,
    <<"PROFILE", ProfileOperation("ADD_FOLLOWING", "u1")>>,
    <<"PROFILE", ProfileOperation("ADD_FOLLOWING", "u2")>>,
    <<"PROFILE", ProfileOperation("ADD_FOLLOWING", "u3")>>,
    <<"PROFILE", ProfileOperation("REMOVE_FOLLOWING", "u1")>>,
    <<"PROFILE", ProfileOperation("REMOVE_FOLLOWING", "u2")>>,
    <<"TIMELINE", TimelineOperation("ADD_NOTE", "n1")>>,
    <<"TIMELINE", TimelineOperation("ADD_NOTE", "n2")>>,
    <<"TIMELINE", TimelineOperation("REMOVE_NOTE", "n1")>>,
    <<"TIMELINE", TimelineOperation("REMOVE_NOTE", "n2")>>,
    <<"TIMELINE", ProfileOperation("SET_USERNAME", "b")>>,
    <<"PROFILE", TimelineOperation("ADD_NOTE", "n2")>> }

\* The owner signs a block that follows the block admitted last (the first one
\* is a root with previous "") and adds it; its timestamp is the clock's, later
\* than that of the block before.
AppendBlock ==
  /\ lastCall = Idle
  /\ Len(blocks) < MaxChain
  /\ \E d \in ChainData :
       AddBlockCall(IF headCid = Null THEN EmptyCid ELSE headCid,
                    Len(blocks) + 1, operatorId, d, "k1", ContentCid(1))
  /\ UNCHANGED <<replica, calls>>

ChainNext == AppendBlock \/ GetProfileState \/ GetTimelineState \/ Return

ChainSpec == Init /\ [][ChainNext]_vars

\* ------------------------------------------- the blob store and the follower

\* The number of blocks the owner uploads.
MaxUploads == 2

\* The n-th identifier the follower's store generates (store.ts:52): its random
\* part differs from that of every identifier of the owner's store.
FollowerGeneratedCid(n) == <<"fblock", n>>

\* JSON.stringify of a block with its signature, as uploadToIPFS writes it: a
\* previous that is undefined is omitted.
serialize(block) ==
  [previous  |-> IF block.previous = Undefined THEN <<>> ELSE <<block.previous>>,
   timestamp |-> block.timestamp,
   operator  |-> block.operator,
   type      |-> block.type,
   data      |-> block.data,
   signature |-> block.signature]

\* JSON.parse of the content read back: reading a key that is not there gives
\* undefined.
parse(contentStr) ==
  [previous  |-> IF contentStr.previous = <<>> THEN Undefined
                 ELSE contentStr.previous[1],
   timestamp |-> contentStr.timestamp,
   operator  |-> contentStr.operator,
   type      |-> contentStr.type,
   data      |-> contentStr.data,
   signature |-> contentStr.signature]

\* client.add: the blob store is content-addressed, the identifier of a content
\* it already holds is the one it gave before.
added_cid(store, contentStr) ==
  IF \E i \in 1..Len(store) : store[i] = contentStr
  THEN ContentCid(CHOOSE i \in 1..Len(store) : store[i] = contentStr)
  ELSE ContentCid(Len(store) + 1)

uploadToIPFS(store, contentStr) ==
  IF \E i \in 1..Len(store) : store[i] = contentStr THEN store
  ELSE Append(store, contentStr)

\* client.cat succeeds on the identifiers the blob store gave out.
HasBlob(store, cid) == \E i \in 1..Len(store) : cid = ContentCid(i)

cat(store, cid) == store[CHOOSE i \in 1..Len(store) : cid = ContentCid(i)]

\* What the owner puts into previous: nothing (the root of main), "", the
\* identifier of the block uploaded last, or a string that is a key of its own
\* or of the follower's store.
OwnerPrevious ==
  {Undefined, EmptyCid, FollowerGeneratedCid(1)}
    \cup (IF Len(ipfs) = 0 THEN {} ELSE {ContentCid(Len(ipfs))})
    \cup (IF headCid = Null THEN {} ELSE {headCid})

\* main: the owner builds and signs a block, uploads it and adds it to its store
\* under the identifier of the upload; the timestamp is the clock's.
PublishBlock ==
  /\ lastCall = Idle
  /\ Len(ipfs) < MaxUploads
  /\ \E previous \in OwnerPrevious, d \in InputData :
       LET block == SignedBlock(previous, Len(ipfs) + 1, operatorId, d, "k1")
       IN  /\ ipfs' = uploadToIPFS(ipfs, serialize(block))
           /\ AddBlockCall(previous, Len(ipfs) + 1, operatorId, d, "k1",
                           added_cid(ipfs, serialize(block)))
  /\ UNCHANGED <<followerStore, sync, calls>>

\* followUser's callback receives an update with the identifier of a block and
\* calls processUserline(blockCid, store): a new visited set, processBlock on
\* the latest identifier. The update is not authenticated: it may name a block
\* that was uploaded (announced) or one the blob store does not hold. The
\* callback runs a second time at most.
StartSync ==
  /\ sync.pc # "processBlock"
  /\ ~sync.again
  /\ \E latestBlockCid \in {ContentCid(i) : i \in 1..(Len(ipfs) + 1)} :
       sync' = [pc |-> "processBlock", latest |-> latestBlockCid,
                cid |-> latestBlockCid, visited |-> {}, fetched |-> <<>>,
                added |-> <<>>, admitted |-> <<>>, error |-> "",
                reconstructed |-> <<>>,
                announced |-> HasBlob(ipfs, latestBlockCid),
                again |-> sync.pc # "idle",
                previousLatest |-> sync.latest, previousPc |-> sync.pc]
  /\ UNCHANGED <<blocks, headCid, lastCall, ipfs, followerStore, calls>>

\* What the callback of followUser does when processUserline has returned: it
\* reads both projections of the follower's store.
Reconstructed(store) ==
  <<getProfileState(store.blocks, store.headCid),
    getTimelineState(store.blocks, store.headCid)>>

\* processBlock as it would be if a failed addBlock were caught and the walk
\* went on to the previous block.
ProcessBlock_SkipsFailedBlock ==
  /\ sync.pc = "processBlock"
  /\ IF sync.cid \in sync.visited
     THEN /\ sync' = [sync EXCEPT !.pc = "done",
                                  !.reconstructed = Reconstructed(followerStore)]
          /\ UNCHANGED followerStore
     ELSE IF ~HasBlob(ipfs, sync.cid)
     THEN /\ sync' = [sync EXCEPT !.pc = "failed", !.error = "FetchFailed",
                                  !.visited = @ \cup {sync.cid}]
          /\ UNCHANGED followerStore
     ELSE LET block == parse(cat(ipfs, sync.cid))
              blockCid == FollowerGeneratedCid(Len(followerStore.blocks) + 1)
              out == addBlock(followerStore.blocks, followerStore.headCid,
                              block, blockCid)
              more == block.previous # Undefined /\ block.previous # EmptyCid
          IN  /\ followerStore' = [blocks |-> out.blocks, headCid |-> out.headCid]
              /\ sync' = [sync EXCEPT
                   !.visited = @ \cup {sync.cid},
                   !.fetched = Append(@, sync.cid),
                   !.added = Append(@, sync.cid),
                   !.admitted = IF out.result = "true"
                                THEN Append(@, [cid |-> blockCid, block |-> block])
                                ELSE @,
                   !.error = IF out.result = "true" THEN @ ELSE out.result,
                   !.pc = IF more THEN "processBlock"
                          ELSE IF out.result = "true" /\ sync.error = ""
                          THEN "done" ELSE "failed",
                   !.cid = IF more THEN block.previous ELSE @,
                   !.reconstructed =
                     IF ~more /\ out.result = "true" /\ sync.error = ""
                     THEN Reconstructed([blocks |-> out.blocks, headCid |-> out.headCid])
                     ELSE <<>>]
  /\ UNCHANGED <<blocks, headCid, lastCall, ipfs, calls>>

\* One invocation of processBlock(blockCid) in processUserline: the test of the
\* visited set, the fetch, the parse, addBlock on the follower's store and the
\* decision to go on to block.previous. An exception of client.cat or of
\* addBlock ends the run (it is caught in the callback of followUser); when the
\* run returns the callback reads the projections.
ProcessBlock ==
  /\ sync.pc = "processBlock"
  /\ IF sync.cid \in sync.visited
     THEN /\ sync' = [sync EXCEPT !.pc = "done",
                                  !.reconstructed = Reconstructed(followerStore)]
          /\ UNCHANGED followerStore
     ELSE IF ~HasBlob(ipfs, sync.cid)
     THEN /\ sync' = [sync EXCEPT !.pc = "failed", !.error = "FetchFailed",
                                  !.visited = @ \cup {sync.cid}]
          /\ UNCHANGED followerStore
     ELSE LET block == parse(cat(ipfs, sync.cid))
              blockCid == FollowerGeneratedCid(Len(followerStore.blocks) + 1)
              out == addBlock(followerStore.blocks, followerStore.headCid,
                              block, blockCid)
              more == block.previous # Undefined /\ block.previous # EmptyCid
          IN  /\ followerStore' = [blocks |-> out.blocks, headCid |-> out.headCid]
              /\ sync' = [sync EXCEPT
                   !.visited = @ \cup {sync.cid},
                   !.fetched = Append(@, sync.cid),
                   !.added = Append(@, sync.cid),
                   !.admitted = IF out.result = "true"
                                THEN Append(@, [cid |-> blockCid, block |-> block])
                                ELSE @,
                   !.error = IF out.result = "true" THEN "" ELSE out.result,
                   !.pc = IF out.result # "true" THEN "failed"
                          ELSE IF more THEN "processBlock" ELSE "done",
                   !.cid = IF out.result = "true" /\ more THEN block.previous ELSE @,
                   !.reconstructed =
                     IF out.result = "true" /\ ~more
                     THEN Reconstructed([blocks |-> out.blocks, headCid |-> out.headCid])
                     ELSE <<>>]
  /\ UNCHANGED <<blocks, headCid, lastCall, ipfs, calls>>

SyncNext == PublishBlock \/ Return \/ StartSync \/ ProcessBlock

SyncSpec == Init /\ [][SyncNext]_vars

\* ------------------------------------------- two stores of the same identity

MaxAdmitted == 2

\* The owner's blocks offered to both stores: every payload at both instants, as
\* a root or below the first block of the store that is asked to add it.
OrderBlocks(firstKey) ==
  {SignedBlock(previous, timestamp, operatorId, d, "k1") :
     previous \in {EmptyCid, firstKey}, timestamp \in Timestamps, d \in InputData}

\* store.addBlock(block, cid) on the owner's store.
StoreAddBlock ==
  /\ Len(blocks) < MaxAdmitted
  /\ \E block \in OrderBlocks(GeneratedCid(1)) :
       LET out == addBlock(blocks, headCid, block, GeneratedCid(Len(blocks) + 1))
       IN  /\ blocks' = out.blocks
           /\ headCid' = out.headCid
  /\ UNCHANGED <<lastCall, replica, calls>>

\* store.addBlock(block, blockCid) on the follower's store, a second Store of
\* the same operator.
FollowerAddBlock ==
  /\ Len(followerStore.blocks) < MaxAdmitted
  /\ \E block \in OrderBlocks(FollowerGeneratedCid(1)) :
       LET out == addBlock(followerStore.blocks, followerStore.headCid, block,
                           FollowerGeneratedCid(Len(followerStore.blocks) + 1))
       IN  followerStore' = [blocks |-> out.blocks, headCid |-> out.headCid]
  /\ UNCHANGED <<blocks, headCid, lastCall, ipfs, sync, calls>>

OrderNext == StoreAddBlock \/ FollowerAddBlock

OrderSpec == Init /\ [][OrderNext]_vars

\* ------------------------------------------------- overlapping addBlock calls

MaxCalls == 3

\* A call of addBlock suspended at the await: its block, and how many blocks the
\* store held when the call passed its checks.
SuspendedCall(block, seen) == [block |-> block, seen |-> seen]

\* A caller starts addBlock(block) without waiting for the calls that are
\* suspended: the call throws on the operator, the undefined previous or the
\* missing ancestor, or is suspended at the await of the signature check.
AddBlockSuspend ==
  /\ Len(blocks) + BagCardinality(calls) < MaxCalls
  /\ \E previous \in {Undefined, EmptyCid, GeneratedCid(1), GeneratedCid(2)},
        timestamp \in Timestamps, operator \in Operators, d \in InputData,
        signer \in Keys :
       LET block == SignedBlock(previous, timestamp, operator, d, signer)
       IN  IF addBlockBeforeAwait(blocks, block) = "await"
           THEN calls' = calls (+) SetToBag({SuspendedCall(block, Len(blocks))})
           ELSE UNCHANGED calls
  /\ UNCHANGED <<blocks, headCid, lastCall, replica>>

\* One of the suspended calls resumes with the verifier's answer: it throws on an
\* invalid signature, or generates a key, stores the block and moves the head.
AddBlockResume ==
  \E call \in BagToSet(calls) :
    LET out == addBlockAfterAwait(blocks, headCid, call.block,
                                  verifyBlockSignature(call.block),
                                  GeneratedCid(Len(blocks) + 1))
    IN  /\ blocks' = out.blocks
        /\ headCid' = out.headCid
        /\ calls' = calls (-) SetToBag({call})
        /\ UNCHANGED <<lastCall, replica>>

InterleaveNext == AddBlockSuspend \/ AddBlockResume

InterleaveSpec == Init /\ [][InterleaveNext]_vars

\* ------------------------------------------------- the verifier on its inputs

\* The identities presented to the verifier and to the store: the checksummed
\* addresses of the keys and the same addresses in lower case.
Addresses == Operators \cup {toLowerCase(a) : a \in Operators}

\* The data signed and the data presented for verification: unsigned root
\* blocks that differ in operator or in payload.
VerifierData ==
  {UnsignedBlock(EmptyCid, 1, a, d) :
     a \in Addresses,
     d \in {<<"PROFILE", ProfileOperation("SET_USERNAME", "a")>>,
            <<"PROFILE", ProfileOperation("SET_USERNAME", "b")>>}}

\* The inputs of one call: signer signed the data signed (or the signature is
\* malformed), and the signature is presented with data for address.
VerifierInput(signer, signed, data, addr) ==
  [op |-> "input", signer |-> signer, signed |-> signed, data |-> data,
   signature |-> IF signer = MalformedSigner THEN MalformedSignature
                 ELSE signData(signer, signed),
   address |-> addr, returned |-> "pending"]

VerifierInit ==
  /\ blocks = <<>>
  /\ headCid = Null
  /\ ipfs = <<>>
  /\ followerStore = [blocks |-> <<>>, headCid |-> Null]
  /\ sync = NoSync
  /\ calls = EmptyBag
  /\ lastCall \in {VerifierInput(signer, signed, data, addr) :
                     signer \in Keys \cup {MalformedSigner},
                     signed \in VerifierData, data \in VerifierData,
                     addr \in Addresses}

\* verifier.verify(data, signature, address), as the verifier's tests call it.
Verify ==
  /\ lastCall.op = "input"
  /\ lastCall' = [lastCall EXCEPT
       !.op = "verify",
       !.returned = IF verify(lastCall.data, lastCall.signature, lastCall.address)
                    THEN "true" ELSE "false"]
  /\ UNCHANGED <<blocks, headCid, replica, calls>>

\* store.addBlock on the empty store, of the root block made of data and the
\* signature: the identity claimed is the block's operator.
AddSignedBlock ==
  /\ lastCall.op = "input"
  /\ LET block == [previous  |-> lastCall.data.previous,
                   timestamp |-> lastCall.data.timestamp,
                   operator  |-> lastCall.data.operator,
                   type      |-> lastCall.data.type,
                   data      |-> lastCall.data.data,
                   signature |-> lastCall.signature]
         out == addBlock(blocks, headCid, block, GeneratedCid(Len(blocks) + 1))
     IN  /\ blocks' = out.blocks
         /\ headCid' = out.headCid
         /\ lastCall' = [lastCall EXCEPT !.op = "addBlock", !.returned = out.result]
  /\ UNCHANGED <<replica, calls>>

VerifierNext == Verify \/ AddSignedBlock

VerifierSpec == VerifierInit /\ [][VerifierNext]_vars

\* ------------------------------------------------------------------ claims

Called == lastCall.op = "addBlock"

Admitted == Called /\ lastCall.result = "true"

Failed == Called /\ lastCall.result # "true"

\* C1 (authenticity): every block held by the store is accepted by the verifier
\* under its own signature and operator; a call of addBlock returns true only for
\* a block the verifier accepts, and whenever the verifier is asked and answers
\* false the call fails with "Invalid block signature".
C1_Authenticity ==
  /\ \A i \in 1..Len(blocks) : verifyBlockSignature(blocks[i].block)
  /\ Admitted => lastCall.signatureOk /\ lastCall.verifier = "accepted"
  /\ (Called /\ lastCall.verifier = "rejected") => lastCall.result = "InvalidSignature"
  /\ (Called /\ lastCall.operatorOk /\ lastCall.previousKind \in {"root", "present"}
        /\ ~lastCall.signatureOk) => lastCall.result = "InvalidSignature"

\* A store that holds blocks has just rejected a block of its operator, with a
\* known parent, whose signature the verifier refuses.
C1_Witness ==
  /\ Len(blocks) >= 1
  /\ Called /\ lastCall.operatorOk /\ lastCall.previousKind = "present"
  /\ ~lastCall.signatureOk
  /\ lastCall.verifier = "rejected" /\ lastCall.result = "InvalidSignature"

\* C2 (author check): a block whose operator is not the store's owning identity
\* fails with the operator-mismatch error, also when its signature is valid for
\* that other operator; every block held by the store has the owner as operator.
C2_AuthorCheck ==
  /\ \A i \in 1..Len(blocks) : blocks[i].block.operator = operatorId
  /\ (Called /\ ~lastCall.operatorOk) => lastCall.result = "OperatorMismatch"

\* A block of another operator, correctly signed by that operator, was rejected.
C2_Witness ==
  /\ Called /\ ~lastCall.operatorOk /\ lastCall.signatureOk
  /\ lastCall.previousKind = "root"
  /\ lastCall.result = "OperatorMismatch"

\* C3 as stated: a block whose previous is present but is no key of the block set
\* fails with "Previous block ... not found", whatever its signature is.
C3_MissingAncestorAlways ==
  (Called /\ lastCall.previousKind = "missing") => lastCall.result = "PreviousNotFound"

\* C3 as amended: a block of the store's operator whose previous is present but is
\* no key of the block set fails with "Previous block ... not found", whether or
\* not the verifier accepts its signature.
C3_MissingAncestor ==
  (Called /\ lastCall.operatorOk /\ lastCall.previousKind = "missing")
    => lastCall.result = "PreviousNotFound" /\ lastCall.verifier = "none"

\* A block of the store's operator with an unknown parent and a signature the
\* verifier would refuse was rejected for its parent.
C3_Witness ==
  /\ Called /\ lastCall.operatorOk /\ lastCall.previousKind = "missing"
  /\ ~lastCall.signatureOk
  /\ lastCall.result = "PreviousNotFound"

\* C4 (no dangling references): the previous of every block held by the store is
\* the root sentinel or a key of the same block set.
C4_NoDanglingReference ==
  \A i \in 1..Len(blocks) :
    \/ blocks[i].block.previous = EmptyCid
    \/ MapHas(blocks, blocks[i].block.previous)

\* The store holds a block with a parent, and the last call failed on a missing
\* ancestor.
C4_Witness ==
  /\ \E i \in 1..Len(blocks) : blocks[i].block.previous # EmptyCid
  /\ Failed /\ lastCall.result = "PreviousNotFound"

\* C5 (root blocks are admitted): a block without previous, whose operator is the
\* store's and whose signature the verifier accepts, is admitted.
C5_RootAlwaysAdmitted ==
  (Called /\ lastCall.previousKind \in {"undefined", "root"}
     /\ lastCall.operatorOk /\ lastCall.signatureOk)
    => lastCall.result = "true"

\* C6 (caller-supplied identifier): after addBlock(block, contentId) returned true
\* the block set maps contentId to that block.
C6_StoredUnderContentId ==
  Admitted =>
    /\ MapHas(blocks, lastCall.contentId)
    /\ MapGet(blocks, lastCall.contentId) = lastCall.block[1]

\* C7 (check order): a block that violates several of the three conditions fails
\* with the error of the first one in the order operator, ancestor, signature, and
\* the verifier is not asked when the operator or the ancestor check fails.
C7_CheckOrder ==
  Called =>
    /\ (~lastCall.operatorOk
          /\ (lastCall.previousKind = "missing" \/ ~lastCall.signatureOk))
         => lastCall.result = "OperatorMismatch"
    /\ (lastCall.operatorOk /\ lastCall.previousKind = "missing"
          /\ ~lastCall.signatureOk)
         => lastCall.result = "PreviousNotFound"
    /\ lastCall.result \in {"OperatorMismatch", "PreviousNotFound"}
         => lastCall.verifier = "none"
    /\ lastCall.verifier # "none"
         => lastCall.operatorOk /\ lastCall.previousKind \in {"root", "present"}

\* A block that violates all three conditions failed on its operator, the verifier
\* not having been asked.
C7_Witness ==
  /\ Called /\ ~lastCall.operatorOk /\ lastCall.previousKind = "missing"
  /\ ~lastCall.signatureOk
  /\ lastCall.result = "OperatorMismatch" /\ lastCall.verifier = "none"

\* C8 (no partial writes): a call of addBlock that fails leaves the block set and
\* the head pointer as they were, and both projections return what they returned
\* before the call.
C8_NoPartialWrite ==
  [][(lastCall'.op = "addBlock" /\ lastCall'.result # "true") =>
       /\ blocks' = blocks
       /\ headCid' = headCid
       /\ getProfileState(blocks', headCid') = getProfileState(blocks, headCid)
       /\ getTimelineState(blocks', headCid') = getTimelineState(blocks, headCid)]_vars

\* A store with two blocks has just refused a block for its signature.
C8_Witness ==
  /\ Len(blocks) = 2
  /\ Failed /\ lastCall.result = "InvalidSignature"
  /\ lastCall.previousKind = "root"

\* The block passed to the call that just returned true was in the store before.
Readmitted ==
  /\ lastCall'.op = "addBlock" /\ lastCall'.result = "true"
  /\ \E i \in 1..Len(blocks) : blocks[i].block = lastCall'.block[1]

\* C9 (idempotent re-admission): admitting a block that was already admitted
\* leaves getProfileState and getTimelineState as they were.
C9_ReadmissionKeepsProjections ==
  [][Readmitted =>
       /\ getProfileState(blocks', headCid') = getProfileState(blocks, headCid)
       /\ getTimelineState(blocks', headCid') = getTimelineState(blocks, headCid)]_vars

\* C10 (silent overwrite): admitting a block that was already admitted succeeds
\* and leaves the number of blocks and the set of keys as they were.
C10_ReadmissionKeepsKeys ==
  [][Readmitted =>
       /\ Len(blocks') = Len(blocks)
       /\ MapKeys(blocks') = MapKeys(blocks)]_vars

\* ------------------------------------------------------------------ the line

\* The line of the current store, each block with the key it is stored under.
Line == orderedBlocks(blocks, headCid)

\* a is at an earlier position of line than b.
Precedes(line, a, b) ==
  \E p \in 1..Len(line), q \in 1..Len(line) :
    p < q /\ line[p].cid = a /\ line[q].cid = b

\* The keys reached from cid by following previous, cid itself excluded.
RECURSIVE Ancestors(_, _)
Ancestors(m, cid) ==
  IF ~MapHas(m, cid) THEN {}
  ELSE LET p == MapGet(m, cid).previous
       IN  IF p = EmptyCid \/ ~MapHas(m, p) THEN {}
           ELSE {p} \cup Ancestors(m, p)

Descendants(m, cid) == {k \in MapKeys(m) : cid \in Ancestors(m, k)}

\* C11: the store is append-only and its blocks immutable: in every step each
\* key of the store is still a key afterwards and the block stored under it is
\* the same block.
C11_AppendOnly ==
  [][\A k \in MapKeys(blocks) :
       MapHas(blocks', k) /\ MapGet(blocks', k) = MapGet(blocks, k)]_vars

\* A store that already held two blocks has admitted a third one.
C11_Witness ==
  /\ Admitted
  /\ Len(blocks) >= 3
  /\ blocks[Len(blocks)].block = lastCall.block[1]

\* C12: the line is a permutation of the block set: it is as long as the store,
\* every stored entry is at exactly one position of it, and getBlockChain returns
\* exactly the blocks at these positions.
C12_LineCoverage ==
  LET line == Line
      chain == getBlockChain(blocks, headCid)
  IN  /\ Len(line) = Len(blocks)
      /\ \A i \in 1..Len(blocks) :
           Cardinality({j \in 1..Len(line) : line[j] = blocks[i]}) = 1
      /\ Len(chain) = Len(blocks)
      /\ \A j \in 1..Len(chain) :
           j <= Len(line) /\ chain[j] = MapGet(blocks, line[j].cid)

\* A store with a root, a second root and a block below one of them.
C12_Witness ==
  /\ lastCall = Idle
  /\ Len(blocks) >= 3
  /\ Cardinality({i \in 1..Len(blocks) : blocks[i].block.previous = EmptyCid}) = 2
  /\ Len(getBlockChain(blocks, headCid)) = Len(blocks)

\* C13: every block that is not a root is later in the line than the block its
\* previous points to.
C13_ParentBeforeChildren ==
  LET line == Line
  IN  \A i \in 1..Len(blocks) :
        blocks[i].block.previous # EmptyCid
          => Precedes(line, blocks[i].block.previous, blocks[i].cid)

\* A child with a smaller timestamp than its parent is in the line, after it.
C13_Witness ==
  \E i \in 1..Len(blocks) :
    /\ blocks[i].block.previous # EmptyCid
    /\ blocks[i].block.timestamp
         < MapGet(blocks, blocks[i].block.previous).timestamp
    /\ Precedes(Line, blocks[i].block.previous, blocks[i].cid)

\* C14: of two blocks with the same previous the one with the smaller timestamp
\* is earlier in the line, and with equal timestamps the one admitted first.
C14_SiblingOrder ==
  LET line == Line
  IN  \A i \in 1..Len(blocks), j \in 1..Len(blocks) :
        (i < j /\ blocks[i].block.previous = blocks[j].block.previous)
          => IF blocks[j].block.timestamp < blocks[i].block.timestamp
             THEN Precedes(line, blocks[j].cid, blocks[i].cid)
             ELSE Precedes(line, blocks[i].cid, blocks[j].cid)

\* Three siblings: the first admitted has the largest timestamp, the other two
\* are tied; the line has them as second admitted, third admitted, first admitted.
C14_Witness ==
  /\ Len(blocks) >= 3
  /\ blocks[1].block.previous = blocks[2].block.previous
  /\ blocks[2].block.previous = blocks[3].block.previous
  /\ blocks[1].block.timestamp > blocks[2].block.timestamp
  /\ blocks[2].block.timestamp = blocks[3].block.timestamp
  /\ Precedes(Line, blocks[2].cid, blocks[3].cid)
  /\ Precedes(Line, blocks[3].cid, blocks[1].cid)

\* C15: the line is a pre-order walk: every block is immediately followed by all
\* its descendants, as one contiguous run.
C15_SubtreeContiguity ==
  LET line == Line
  IN  \A i \in 1..Len(line) :
        LET run == Descendants(blocks, line[i].cid)
        IN  /\ i + Cardinality(run) <= Len(line)
            /\ \A j \in (i + 1)..(i + Cardinality(run)) : line[j].cid \in run

\* The line is not a flat sort by timestamp: a descendant of an earlier sibling
\* precedes a later sibling although its timestamp is larger.
C15_Witness ==
  LET line == Line
  IN  \E i \in 1..Len(line), j \in 1..Len(line) :
        /\ i < j
        /\ line[i].block.previous # EmptyCid
        /\ line[j].block.previous = EmptyCid
        /\ line[i].block.timestamp > line[j].block.timestamp

\* ----------------------------------------------------------- the projections

\* The blocks of the line, as getProfileState and getTimelineState walk them.
Chain == getBlockChain(blocks, headCid)

\* The states of the loop of getProfileState over chain: the default state,
\* then the state after each block.
RECURSIVE ProfileStates(_)
ProfileStates(chain) ==
  IF chain = <<>> THEN <<DefaultProfileState>>
  ELSE LET states == ProfileStates(SubSeq(chain, 1, Len(chain) - 1))
       IN  Append(states, replayProfile(states[Len(states)], <<chain[Len(chain)]>>))

\* The states of the loop of getTimelineState over chain.
RECURSIVE TimelineStates(_)
TimelineStates(chain) ==
  IF chain = <<>> THEN <<DefaultTimelineState>>
  ELSE LET states == TimelineStates(SubSeq(chain, 1, Len(chain) - 1))
       IN  Append(states, replayTimeline(states[Len(states)], <<chain[Len(chain)]>>))

NoDuplicates(seq) ==
  \A i \in 1..Len(seq), j \in 1..Len(seq) : i # j => seq[i] # seq[j]

\* seq without every occurrence of v, the other values in their order.
Without(seq, v) == SelectSeq(seq, LAMBDA y : y # v)

IsProfileOp(block, t) == block.type = "PROFILE" /\ block.data.type = t

IsTimelineOp(block, t) == block.type = "TIMELINE" /\ block.data.type = t

\* The blocks of the store are one chain: a root, its child, its grandchild...
IsSingleChain ==
  /\ Len(blocks) >= 1
  /\ blocks[1].block.previous = EmptyCid
  /\ \A i \in 2..Len(blocks) : blocks[i].block.previous = blocks[i - 1].cid

\* The left fold of the PROFILE operations of the first n stored blocks.
RECURSIVE FoldProfile(_)
FoldProfile(n) ==
  IF n = 0 THEN DefaultProfileState
  ELSE IF blocks[n].block.type = "PROFILE"
       THEN applyProfileOperation(FoldProfile(n - 1), blocks[n].block.data)
       ELSE FoldProfile(n - 1)

\* The chain root SetUsername a, child SetBio b, grandchild AddFollowing u1.
IsExampleChain ==
  /\ Len(blocks) = 3
  /\ IsSingleChain
  /\ blocks[1].block.type = "PROFILE"
  /\ blocks[1].block.data = ProfileOperation("SET_USERNAME", "a")
  /\ blocks[2].block.type = "PROFILE"
  /\ blocks[2].block.data = ProfileOperation("SET_BIO", "b")
  /\ blocks[3].block.type = "PROFILE"
  /\ blocks[3].block.data = ProfileOperation("ADD_FOLLOWING", "u1")

ExampleProfile ==
  [username |-> "a", bio |-> "b", avatar |-> NoAvatar, following |-> <<"u1">>]

\* C16: when the blocks of the store form a single chain, the line is that chain
\* from root to head and getProfileState returns the left fold of the chain's
\* PROFILE operations from the default state; for the chain SetUsername a,
\* SetBio b, AddFollowing u1 that is username a, bio b, following [u1].
C16_LinearChainReplay ==
  IsSingleChain =>
    LET returned == getProfileState(blocks, headCid)
    IN  /\ Line = blocks
        /\ returned = [error |-> "", state |-> <<FoldProfile(Len(blocks))>>]
        /\ IsExampleChain => returned.state = <<ExampleProfile>>

\* getProfileState has returned the profile of the example chain.
C16_Witness ==
  /\ IsExampleChain
  /\ lastCall.op = "getProfileState"
  /\ lastCall.value = [error |-> "", state |-> <<ExampleProfile>>]

\* C17: getProfileState and getTimelineState leave the block set and the head
\* as they were, and the value returned is the projection of that unchanged
\* store, so that a second call without an addBlock in between returns the same.
C17_ProjectionPurity ==
  [][(lastCall'.op \in {"getProfileState", "getTimelineState"})
       => /\ blocks' = blocks
          /\ headCid' = headCid
          /\ lastCall'.value
               = IF lastCall'.op = "getProfileState"
                 THEN getProfileState(blocks', headCid')
                 ELSE getTimelineState(blocks', headCid')]_vars

\* A projection was computed on a store whose line is not its insertion order.
C17_Witness ==
  /\ lastCall.op \in {"getProfileState", "getTimelineState"}
  /\ lastCall.value.error = ""
  /\ Len(blocks) >= 2
  /\ Line # blocks

\* C18: the following list and the notes list never hold a value twice, after
\* any prefix of the line; adding a value that is in the list leaves the list as
\* it is (the value stays where it was first added), adding another appends it.
C18_OrderedSetUniqueness ==
  LET chain == Chain
      profiles == ProfileStates(chain)
      timelines == TimelineStates(chain)
  IN  /\ headCid # Null =>
           /\ getProfileState(blocks, headCid).state = <<profiles[Len(chain) + 1]>>
           /\ getTimelineState(blocks, headCid).state = <<timelines[Len(chain) + 1]>>
      /\ \A n \in 1..Len(chain) :
           LET x == chain[n].data.payload
               followingBefore == profiles[n].following
               followingAfter == profiles[n + 1].following
               notesBefore == timelines[n].notes
               notesAfter == timelines[n + 1].notes
           IN  /\ NoDuplicates(followingAfter)
               /\ NoDuplicates(notesAfter)
               /\ IsProfileOp(chain[n], "ADD_FOLLOWING") =>
                    followingAfter = IF Includes(followingBefore, x) THEN followingBefore
                                     ELSE Append(followingBefore, x)
               /\ IsTimelineOp(chain[n], "ADD_NOTE") =>
                    notesAfter = IF Includes(notesBefore, x) THEN notesBefore
                                 ELSE Append(notesBefore, x)

\* AddFollowing u1, AddFollowing u2, AddFollowing u1 gives following [u1, u2].
C18_Witness ==
  LET chain == Chain
  IN  /\ Len(chain) = 3
      /\ IsProfileOp(chain[1], "ADD_FOLLOWING") /\ chain[1].data.payload = "u1"
      /\ IsProfileOp(chain[2], "ADD_FOLLOWING") /\ chain[2].data.payload = "u2"
      /\ IsProfileOp(chain[3], "ADD_FOLLOWING") /\ chain[3].data.payload = "u1"
      /\ getProfileState(blocks, headCid).state[1].following = <<"u1", "u2">>

\* C19: a RemoveFollowing or RemoveNote block leaves the list without its value
\* and with every other value in the order it had; a value that is not in the
\* list leaves the list as it is.
C19_RemoveSemantics ==
  LET chain == Chain
      profiles == ProfileStates(chain)
      timelines == TimelineStates(chain)
  IN  /\ headCid # Null =>
           /\ getProfileState(blocks, headCid).state = <<profiles[Len(chain) + 1]>>
           /\ getTimelineState(blocks, headCid).state = <<timelines[Len(chain) + 1]>>
      /\ \A n \in 1..Len(chain) :
           LET x == chain[n].data.payload
               followingBefore == profiles[n].following
               followingAfter == profiles[n + 1].following
               notesBefore == timelines[n].notes
               notesAfter == timelines[n + 1].notes
           IN  /\ IsProfileOp(chain[n], "REMOVE_FOLLOWING") =>
                    /\ followingAfter = Without(followingBefore, x)
                    /\ ~Includes(followingBefore, x) => followingAfter = followingBefore
               /\ IsTimelineOp(chain[n], "REMOVE_NOTE") =>
                    /\ notesAfter = Without(notesBefore, x)
                    /\ ~Includes(notesBefore, x) => notesAfter = notesBefore

\* AddNote n1, AddNote n2, RemoveNote n1 along a chain: getTimelineState has
\* returned notes [n2].
C19_Witness ==
  LET chain == Chain
  IN  /\ Len(chain) = 3
      /\ IsSingleChain
      /\ IsTimelineOp(chain[1], "ADD_NOTE") /\ chain[1].data.payload = "n1"
      /\ IsTimelineOp(chain[2], "ADD_NOTE") /\ chain[2].data.payload = "n2"
      /\ IsTimelineOp(chain[3], "REMOVE_NOTE") /\ chain[3].data.payload = "n1"
      /\ lastCall.op = "getTimelineState"
      /\ lastCall.value = [error |-> "", state |-> <<[notes |-> <<"n2">>]>>]

\* The payload of the last PROFILE block of chain with operation t, or the
\* default when chain has none.
LastPayload(chain, t, default) ==
  LET setters == {i \in 1..Len(chain) : IsProfileOp(chain[i], t)}
  IN  IF setters = {} THEN default
      ELSE chain[CHOOSE i \in setters : \A j \in setters : j <= i].data.payload

\* C20: username, bio and avatar are the payload of the last SetUsername, SetBio
\* and SetAvatar block of the line, and the default when the line has none.
C20_UnconditionalReplacement ==
  headCid # Null =>
    LET chain == Chain
        state == getProfileState(blocks, headCid).state[1]
    IN  /\ state.username = LastPayload(chain, "SET_USERNAME", "")
        /\ state.bio = LastPayload(chain, "SET_BIO", "")
        /\ state.avatar = LastPayload(chain, "SET_AVATAR", NoAvatar)

\* SetUsername a, SetUsername b, SetBio b: the username is b, the last one set,
\* and the avatar is still the default.
C20_Witness ==
  LET chain == Chain
  IN  /\ Len(chain) = 3
      /\ IsProfileOp(chain[1], "SET_USERNAME") /\ chain[1].data.payload = "a"
      /\ IsProfileOp(chain[2], "SET_USERNAME") /\ chain[2].data.payload = "b"
      /\ IsProfileOp(chain[3], "SET_BIO")
      /\ lastCall.op = "getProfileState"
      /\ lastCall.value.state[1].username = "b"
      /\ lastCall.value.state[1].bio = "b"
      /\ lastCall.value.state[1].avatar = NoAvatar

\* The blocks of chain whose type is t.
OfType(chain, t) == SelectSeq(chain, LAMBDA b : b.type = t)

\* The state getProfileState returns, the default state where it throws.
ProfileOf(curBlocks, curHead) ==
  IF curHead = Null THEN DefaultProfileState
  ELSE getProfileState(curBlocks, curHead).state[1]

TimelineOf(curBlocks, curHead) ==
  IF curHead = Null THEN DefaultTimelineState
  ELSE getTimelineState(curBlocks, curHead).state[1]

C22_EmptyLog ==
  /\ (headCid = Null) <=> (Len(blocks) = 0)
  /\ getProfileState(blocks, headCid).error
       = IF Len(blocks) = 0 THEN "No blocks found" ELSE ""
  /\ getTimelineState(blocks, headCid).error
       = IF Len(blocks) = 0 THEN "No blocks found" ELSE ""
  /\ lastCall.op \in {"getProfileState", "getTimelineState"} =>
       lastCall.value.error = IF Len(blocks) = 0 THEN "No blocks found" ELSE ""

\* A projection has failed with "No blocks found" on the empty store.
C22_Witness ==
  /\ lastCall.op \in {"getProfileState", "getTimelineState"}
  /\ lastCall.value = [error |-> "No blocks found", state |-> <<>>]
  /\ Len(blocks) = 0

\* ------------------------------------------------------------- replication

\* The identifiers from cid back along previous, as far as the blob store has
\* the blocks: cid first, the root last.
RECURSIVE BlobChain(_, _)
BlobChain(store, cid) ==
  IF ~HasBlob(store, cid) THEN <<>>
  ELSE LET block == parse(cat(store, cid))
       IN  <<cid>> \o (IF block.previous \in {Undefined, EmptyCid} THEN <<>>
                       ELSE BlobChain(store, block.previous))

Range(seq) == {seq[i] : i \in 1..Len(seq)}

\* The blob store holds a valid chain that ends at cid: every block from cid
\* back to a root (a block without previous, or with previous "") is there, is
\* the owner's and is correctly signed.
IsValidBlobChain(store, cid) ==
  /\ HasBlob(store, cid)
  /\ \A c \in Range(BlobChain(store, cid)) :
       LET block == parse(cat(store, c))
       IN  /\ block.operator = operatorId
           /\ verifyBlockSignature(block)
           /\ block.previous \in {Undefined, EmptyCid} \/ HasBlob(store, block.previous)

SyncEnded == sync.pc \in {"done", "failed"}

\* C23: a first run of sync on an empty follower store, started at the latest
\* identifier of a valid chain of N blocks, ends normally having visited the N
\* identifiers of the chain, each fetched once and passed to addBlock once.
C23_ReplicationConvergence ==
  (SyncEnded /\ ~sync.again /\ sync.announced /\ IsValidBlobChain(ipfs, sync.latest)) =>
    LET chain == BlobChain(ipfs, sync.latest)
    IN  /\ sync.pc = "done"
        /\ sync.visited = Range(chain)
        /\ Cardinality(sync.visited) = Len(chain)
        /\ sync.fetched = chain
        /\ sync.added = chain

\* C24: when the owner has admitted a chain to its store and a first run of sync
\* on the identifier of the chain's latest block has ended, the projections of
\* the follower's store are those of the owner's store.
C24_FollowerEqualsWriter ==
  (/\ SyncEnded
   /\ ~sync.again
   /\ sync.announced
   /\ Len(blocks) >= 1
   /\ blocks[1].block.previous = EmptyCid
   /\ \A i \in 2..Len(blocks) : blocks[i].block.previous = blocks[i - 1].cid
   /\ sync.latest = added_cid(ipfs, serialize(blocks[Len(blocks)].block)))
    => /\ sync.pc = "done"
       /\ getProfileState(followerStore.blocks, followerStore.headCid)
            = getProfileState(blocks, headCid)
       /\ getTimelineState(followerStore.blocks, followerStore.headCid)
            = getTimelineState(blocks, headCid)

\* C25: a second run of sync with the latest identifier of a first run that
\* completed in full makes no call of addBlock.
C25_ResyncIsFree ==
  (/\ SyncEnded
   /\ sync.again
   /\ sync.previousPc = "done"
   /\ sync.previousLatest = sync.latest)
    => Len(sync.added) = 0

\* The owner's store holds the block that the blob store holds under cid.
AdmittedUnder(cid) ==
  /\ HasBlob(ipfs, cid)
  /\ \E i \in 1..Len(blocks) : blocks[i].block = parse(cat(ipfs, cid))

\* C26: once the parent P of a block B was admitted with its identifier idP, a
\* call addBlock(B, idB) of the owner's correctly signed B, whose previous is
\* idP, succeeds.
C26_MissingAncestorRecoverable ==
  [][(/\ lastCall'.op = "addBlock"
      /\ lastCall'.operatorOk
      /\ lastCall'.signatureOk
      /\ HasBlob(ipfs', lastCall'.contentId)
      /\ AdmittedUnder(parse(cat(ipfs', lastCall'.contentId)).previous))
       => lastCall'.result = "true"]_vars

\* C30: when a run of sync has failed, it ended with the error of the fetch or
\* of the addBlock that failed, at the block that was fetched (or tried) last;
\* no ancestor of that block was fetched or passed to addBlock in the run, and
\* every block admitted earlier in the run is in the follower's store.
C30_SyncAbortsOnFirstFailure ==
  sync.pc = "failed" =>
    /\ sync.cid \in sync.visited
    /\ sync.reconstructed = <<>>
    /\ IF sync.error = "FetchFailed"
       THEN /\ sync.cid \notin Range(sync.fetched)
            /\ sync.cid \notin Range(sync.added)
            /\ Cardinality(sync.visited) = Len(sync.fetched) + 1
       ELSE /\ sync.error \in {"OperatorMismatch", "TypeError", "PreviousNotFound",
                               "InvalidSignature"}
            /\ sync.fetched # <<>> /\ sync.fetched[Len(sync.fetched)] = sync.cid
            /\ sync.added # <<>> /\ sync.added[Len(sync.added)] = sync.cid
            /\ Cardinality(sync.visited) = Len(sync.fetched)
            /\ Len(sync.admitted) = Len(sync.added) - 1
            /\ \A a \in Range(Tail(BlobChain(ipfs, sync.cid))) :
                 a \notin Range(sync.fetched) /\ a \notin Range(sync.added)
    /\ \A i \in 1..Len(sync.admitted) :
         /\ MapHas(followerStore.blocks, sync.admitted[i].cid)
         /\ MapGet(followerStore.blocks, sync.admitted[i].cid) = sync.admitted[i].block

\* A run admitted a block and then failed to fetch the block before it; the
\* admitted block is in the follower's store.
C30_Witness ==
  /\ sync.pc = "failed"
  /\ sync.error = "FetchFailed"
  /\ Len(sync.admitted) = 1
  /\ MapHas(followerStore.blocks, sync.admitted[1].cid)

\* ---------------------------------------------------------------- verifier

\* C27: addBlock does not fail the operator check for a block whose operator is
\* the store's owning identity in another letter case, as the verifier compares
\* identities without regard to case.
C27_CaseInsensitiveOperator ==
  (/\ lastCall.op = "addBlock"
   /\ toLowerCase(lastCall.data.operator) = toLowerCase(operatorId))
    => lastCall.returned # "OperatorMismatch"

\* C28: verify(d', signData(k, d), a) is true exactly when d' serializes as d
\* does and a is the address of k (identities are compared without regard to
\* letter case): true for d and address(k), false for every d' with another
\* serialization, false for every other identity.
C28_SignVerifyRelation ==
  (lastCall.op = "verify" /\ lastCall.signer \in Keys) =>
    LET sameMessage == stringify(lastCall.data) = stringify(lastCall.signed)
        sameIdentity == toLowerCase(lastCall.address)
                          = toLowerCase(address(lastCall.signer))
    IN  /\ (lastCall.data = lastCall.signed /\ lastCall.address = address(lastCall.signer))
             => lastCall.returned = "true"
        /\ ~sameMessage => lastCall.returned = "false"
        /\ ~sameIdentity => lastCall.returned = "false"
        /\ (sameMessage /\ sameIdentity) => lastCall.returned = "true"

\* verify has returned false for the signer's own address on data that differs
\* from the data signed.
C28_Witness ==
  /\ lastCall.op = "verify"
  /\ lastCall.signer \in Keys
  /\ lastCall.address = address(lastCall.signer)
  /\ lastCall.data.operator = lastCall.signed.operator
  /\ lastCall.data.data # lastCall.signed.data
  /\ lastCall.returned = "false"

\* C29: verify returns true or false, never an exception; on a malformed
\* signature it returns false, and addBlock of the owner's block with that
\* signature fails with the invalid-signature error and stores nothing.
C29_VerifierFailsClosed ==
  /\ lastCall.op = "verify" =>
       /\ lastCall.returned \in {"true", "false"}
       /\ lastCall.signer = MalformedSigner => lastCall.returned = "false"
  /\ (/\ lastCall.op = "addBlock"
      /\ lastCall.signer = MalformedSigner
      /\ lastCall.data.operator = operatorId)
       => /\ lastCall.returned = "InvalidSignature"
          /\ blocks = <<>>
          /\ headCid = Null

\* addBlock has rejected the owner's block with a malformed signature.
C29_Witness ==
  /\ lastCall.op = "addBlock"
  /\ lastCall.signer = MalformedSigner
  /\ lastCall.data.operator = operatorId
  /\ lastCall.returned = "InvalidSignature"
  /\ blocks = <<>>

\* ------------------------------------------------------------ block graph

\* Following previous from cid reaches a root (a block whose previous is the
\* empty or absent value) through stored blocks, none of them in seen or met
\* twice.
RECURSIVE ReachesRoot(_, _, _)
ReachesRoot(m, cid, seen) ==
  IF cid \in seen \/ ~MapHas(m, cid) THEN FALSE
  ELSE LET p == MapGet(m, cid).previous
       IN  IF p \in {Undefined, EmptyCid} THEN TRUE
           ELSE ReachesRoot(m, p, seen \cup {cid})

\* C31: the block graph is acyclic and rooted: in every state of the store,
\* following previous from any stored block reaches a root without meeting a
\* block twice, whatever calls of addBlock were made, calls that add a block
\* again included.
C31_AcyclicBlockGraph ==
  \A k \in MapKeys(blocks) : ReachesRoot(blocks, k, {})

\* A store of three blocks in which a block was added twice and a block names a
\* stored block as its previous.
C31_Witness ==
  /\ Len(blocks) = 3
  /\ \E i \in 1..3, j \in 1..3 : i < j /\ blocks[i].block = blocks[j].block
  /\ \E i \in 1..3 : MapHas(blocks, blocks[i].block.previous)

\* ------------------------------------------------------ insertion order

\* The blocks of a store, without their keys.
StoredBlocks(m) == [i \in 1..Len(m) |-> m[i].block]

\* The two stores have admitted the same blocks, each once: the content
\* identifier of a block is a function of its bytes, so these are the same
\* (contentId, block) pairs.
SameAdmitted ==
  /\ Len(blocks) = Len(followerStore.blocks)
  /\ NoDuplicates(StoredBlocks(blocks))
  /\ Range(StoredBlocks(blocks)) = Range(StoredBlocks(followerStore.blocks))

\* C32: two stores of the same identity that have admitted the same blocks, in
\* whatever orders, have the same line and so the same profile state and the
\* same timeline state.
C32_InsertionOrderIndependence ==
  SameAdmitted =>
    /\ getBlockChain(blocks, headCid)
         = getBlockChain(followerStore.blocks, followerStore.headCid)
    /\ getProfileState(blocks, headCid)
         = getProfileState(followerStore.blocks, followerStore.headCid)
    /\ getTimelineState(blocks, headCid)
         = getTimelineState(followerStore.blocks, followerStore.headCid)

\* ------------------------------------------------------ overlapping calls

\* C33: whatever the order in which suspended calls of addBlock resume, in every
\* step no stored block is lost or changed, every stored block is the owner's and
\* its previous is "" or a key of the store, a call that resumes with a valid
\* signature stores its block as a new entry and becomes the head, and a call
\* that resumes with an invalid one leaves the store as it is.
C33_InterleavedAppendsSafe ==
  [][/\ \A k \in MapKeys(blocks) :
          MapHas(blocks', k) /\ MapGet(blocks', k) = MapGet(blocks, k)
     /\ \A i \in 1..Len(blocks') :
          /\ blocks'[i].block.operator = operatorId
          /\ \/ blocks'[i].block.previous = EmptyCid
             \/ MapHas(blocks', blocks'[i].block.previous)
     /\ \A call \in BagToSet(calls) :
          CopiesIn(call, calls') < CopiesIn(call, calls) =>
            IF verifyBlockSignature(call.block)
            THEN /\ Len(blocks') = Len(blocks) + 1
                 /\ blocks'[Len(blocks')].block = call.block
                 /\ headCid' = blocks'[Len(blocks')].cid
            ELSE blocks' = blocks /\ headCid' = headCid]_vars

\* Two calls have stored a block and its child while a call that passed its
\* checks on the empty store, with a valid signature, is still suspended.
C33_Witness ==
  /\ Len(blocks) = 2
  /\ blocks[2].block.previous = blocks[1].cid
  /\ \E call \in BagToSet(calls) :
       call.seen = 0 /\ verifyBlockSignature(call.block)

====
